---- MODULE Spec2Model ----
(***************************************************************************)
(* Model of the identity-matching and autocomplete engine of               *)
(* face-snap-trieve: the name Trie (src/utils/trie.ts), the embedding      *)
(* registry and matcher (FaceHashMap / FaceRecognitionEngine), and the     *)
(* orchestration in pages/Index.tsx and WebcamCapture.tsx, and the         *)
(* registration dialog (RegisterDialog) with utils/faceQuality.ts.         *)
(*                                                                         *)
(* A string is a sequence of one-character strings.  A trie node is keyed  *)
(* by the path of lower-cased characters that leads to it from the root    *)
(* (the root is <<>>); its record holds the node's fields, the children    *)
(* Map being kept as the sequence of its keys in insertion order.          *)
(***************************************************************************)
EXTENDS Integers, Sequences, FiniteSets, TLC

\* ------------------------------------------------------------------------
\* Bounds of the model
\* ------------------------------------------------------------------------
MaxLen == 2
MaxNames == 2
Dim == 2
MaxRegs == 2
MaxLoads == 2
MaxStarts == 2
MaxPasses == 2
MaxFaces == 2
MaxCalls == 3

\* ------------------------------------------------------------------------
\* Strings
\* ------------------------------------------------------------------------
Chars == {"a", "A", "b"}

RECURSIVE StringsUpTo(_)
StringsUpTo(n) ==
    IF n = 0 THEN {<<>>}
    ELSE LET shorter == StringsUpTo(n - 1)
         IN  shorter \cup {Append(s, c) : s \in shorter, c \in Chars}

LowerChar(c) == IF c = "A" THEN "a" ELSE c

toLowerCase(s) == [i \in 1..Len(s) |-> LowerChar(s[i])]

\* The names fed to the operations: lower-case or capitalised strings
\* ("alice", "Alice") with at most one "b", the empty string included.
Names ==
    {s \in StringsUpTo(MaxLen) :
        /\ \A i \in 2..Len(s) : s[i] = LowerChar(s[i])
        /\ Cardinality({i \in 1..Len(s) : s[i] = "b"}) <= 1}

\* JavaScript truthiness of a `string | null` value: null and "" are falsy.
\* A nullable string is <<>> for null and <<s>> for the string s.
Null == <<>>
Some(s) == <<s>>
Truthy(v) == v # Null /\ v[1] # <<>>

Range(s) == {s[i] : i \in 1..Len(s)}

\* ------------------------------------------------------------------------
\* Trie (src/utils/trie.ts)
\* ------------------------------------------------------------------------
TrieNode == [children |-> <<>>, isEndOfWord |-> FALSE, name |-> Null]

EmptyTrie == (<<>> :> TrieNode)

\* node.children.has(char) for the node at path `node`
HasChild(t, node, char) == char \in Range(t[node].children)

\* node.children.set(char, new TrieNode()) for a char the node does not have
AddChild(t, node, char) ==
    LET child == Append(node, char)
    IN  [p \in DOMAIN t \cup {child} |->
            IF p = child THEN TrieNode
            ELSE IF p = node
                 THEN [t[p] EXCEPT !.children = Append(@, char)]
                 ELSE t[p]]

IsPrefixOf(p, q) == Len(p) <= Len(q) /\ SubSeq(q, 1, Len(p)) = p

RemoveKey(s, char) == SelectSeq(s, LAMBDA c : c # char)

\* node.children.delete(char): the child and everything below it is dropped
DeleteChild(t, node, char) ==
    LET child == Append(node, char)
        keep == {p \in DOMAIN t : ~IsPrefixOf(child, p)}
    IN  [p \in keep |->
            IF p = node
            THEN [t[p] EXCEPT !.children = RemoveKey(@, char)]
            ELSE t[p]]

\* the for-loop of insert, from character i on
RECURSIVE InsertWalk(_, _, _)
InsertWalk(t, lowerName, i) ==
    IF i > Len(lowerName) THEN t
    ELSE LET node == SubSeq(lowerName, 1, i - 1)
             char == lowerName[i]
             t1 == IF ~HasChild(t, node, char) THEN AddChild(t, node, char) ELSE t
         IN  InsertWalk(t1, lowerName, i + 1)

\* insert that keeps the display name the node already has
insert_KeepFirstName(t, name) ==
    LET lowerName == toLowerCase(name)
        t1 == InsertWalk(t, lowerName, 1)
    IN  [t1 EXCEPT ![lowerName] =
            [@ EXCEPT !.isEndOfWord = TRUE,
                      !.name = IF @ = Null THEN Some(name) ELSE @]]

\* insert that ignores the empty string
insert_SkipEmpty(t, name) ==
    LET lowerName == toLowerCase(name)
        t1 == InsertWalk(t, lowerName, 1)
    IN  IF Len(name) = 0 THEN t
        ELSE [t1 EXCEPT ![lowerName] = [@ EXCEPT !.isEndOfWord = TRUE, !.name = Some(name)]]

insert(t, name) ==
    LET lowerName == toLowerCase(name)
        t1 == InsertWalk(t, lowerName, 1)
    IN  [t1 EXCEPT ![lowerName] = [@ EXCEPT !.isEndOfWord = TRUE, !.name = Some(name)]]

\* collectNames: the node's own name, then the subtrees in children order
RECURSIVE collectNames(_, _)
RECURSIVE collectChildren(_, _, _)
collectNames(t, node) ==
    (IF t[node].isEndOfWord /\ Truthy(t[node].name) THEN <<t[node].name[1]>> ELSE <<>>)
        \o collectChildren(t, node, 1)

collectChildren(t, node, k) ==
    IF k > Len(t[node].children) THEN <<>>
    ELSE collectNames(t, Append(node, t[node].children[k]))
            \o collectChildren(t, node, k + 1)

\* the length of the longest prefix of s that is a path of the trie
RECURSIVE WalkLen(_, _, _)
WalkLen(t, s, i) ==
    IF i > Len(s) THEN Len(s)
    ELSE IF ~HasChild(t, SubSeq(s, 1, i - 1), s[i]) THEN i - 1
         ELSE WalkLen(t, s, i + 1)

searchWithPrefix(t, prefix) ==
    LET lowerPrefix == toLowerCase(prefix)
    IN  IF WalkLen(t, lowerPrefix, 1) < Len(lowerPrefix) THEN <<>>
        ELSE collectNames(t, lowerPrefix)

\* exists that forgets the terminal flag: any existing path counts
exists_AnyPath(t, name) ==
    LET lowerName == toLowerCase(name)
    IN  WalkLen(t, lowerName, 1) = Len(lowerName)

exists(t, name) ==
    LET lowerName == toLowerCase(name)
    IN  IF WalkLen(t, lowerName, 1) < Len(lowerName) THEN FALSE
        ELSE t[lowerName].isEndOfWord

\* removeHelper that unmarks the end node but never deletes a child
RECURSIVE removeHelper_NoPrune(_, _, _)
removeHelper_NoPrune(t, name, index) ==
    LET node == SubSeq(name, 1, index)
    IN  IF index = Len(name)
        THEN IF ~t[node].isEndOfWord
             THEN [t |-> t, ret |-> FALSE]
             ELSE [t |-> [t EXCEPT ![node] = [@ EXCEPT !.isEndOfWord = FALSE, !.name = Null]],
                   ret |-> Len(t[node].children) = 0]
        ELSE LET char == name[index + 1]
             IN  IF ~HasChild(t, node, char)
                 THEN [t |-> t, ret |-> FALSE]
                 ELSE LET r == removeHelper_NoPrune(t, name, index + 1)
                      IN  [t |-> r.t, ret |-> FALSE]

\* removeHelper without the `if (!node.isEndOfWord) return false` test
RECURSIVE removeHelper_NoTerminalTest(_, _, _)
removeHelper_NoTerminalTest(t, name, index) ==
    LET node == SubSeq(name, 1, index)
    IN  IF index = Len(name)
        THEN [t |-> [t EXCEPT ![node] = [@ EXCEPT !.isEndOfWord = FALSE, !.name = Null]],
              ret |-> Len(t[node].children) = 0]
        ELSE LET char == name[index + 1]
             IN  IF ~HasChild(t, node, char)
                 THEN [t |-> t, ret |-> FALSE]
                 ELSE LET r == removeHelper_NoTerminalTest(t, name, index + 1)
                      IN  IF r.ret
                          THEN LET t2 == DeleteChild(r.t, node, char)
                               IN  [t |-> t2,
                                    ret |-> Len(t2[node].children) = 0
                                            /\ ~t2[node].isEndOfWord]
                          ELSE [t |-> r.t, ret |-> FALSE]

\* removeHelper that prunes a childless node without the `!node.isEndOfWord`
\* test
RECURSIVE removeHelper_PruneTerminal(_, _, _)
removeHelper_PruneTerminal(t, name, index) ==
    LET node == SubSeq(name, 1, index)
    IN  IF index = Len(name)
        THEN IF ~t[node].isEndOfWord
             THEN [t |-> t, ret |-> FALSE]
             ELSE [t |-> [t EXCEPT ![node] = [@ EXCEPT !.isEndOfWord = FALSE, !.name = Null]],
                   ret |-> Len(t[node].children) = 0]
        ELSE LET char == name[index + 1]
             IN  IF ~HasChild(t, node, char)
                 THEN [t |-> t, ret |-> FALSE]
                 ELSE LET r == removeHelper_PruneTerminal(t, name, index + 1)
                      IN  IF r.ret
                          THEN LET t2 == DeleteChild(r.t, node, char)
                               IN  [t |-> t2,
                                    ret |-> Len(t2[node].children) = 0]
                          ELSE [t |-> r.t, ret |-> FALSE]

\* removeHelper returns the new tree and its boolean result
RECURSIVE removeHelper(_, _, _)
removeHelper(t, name, index) ==
    LET node == SubSeq(name, 1, index)
    IN  IF index = Len(name)
        THEN IF ~t[node].isEndOfWord
             THEN [t |-> t, ret |-> FALSE]
             ELSE [t |-> [t EXCEPT ![node] = [@ EXCEPT !.isEndOfWord = FALSE, !.name = Null]],
                   ret |-> Len(t[node].children) = 0]
        ELSE LET char == name[index + 1]
             IN  IF ~HasChild(t, node, char)
                 THEN [t |-> t, ret |-> FALSE]
                 ELSE LET r == removeHelper(t, name, index + 1)
                      IN  IF r.ret
                          THEN LET t2 == DeleteChild(r.t, node, char)
                               IN  [t |-> t2,
                                    ret |-> Len(t2[node].children) = 0
                                            /\ ~t2[node].isEndOfWord]
                          ELSE [t |-> r.t, ret |-> FALSE]

remove(t, name) == removeHelper(t, toLowerCase(name), 0)

\* ------------------------------------------------------------------------
\* FaceHashMap and FaceRecognitionEngine (utils/faceRecognition.ts)
\*
\* A Map is the sequence of its [key, val] entries in insertion order.
\* Numbers: an embedding component is counted in tenths, a distance, a
\* threshold and a confidence in thousandths (One is 1.0).
\* ------------------------------------------------------------------------
One == 1000
DefaultThreshold == 600

Coords == {0, 3, 10}

\* the embeddings used as inputs: vectors with at most one non-zero component
Embeddings ==
    {e \in [1..Dim -> Coords] : Cardinality({i \in 1..Dim : e[i] # 0}) <= 1}

Thresholds == {0, 300, DefaultThreshold, 1500}

FaceNames == {<<"a">>, <<"A">>, <<"b">>, <<"a", "b">>}

MapIndex(m, k) == {i \in 1..Len(m) : m[i].key = k}

MapHas(m, k) == MapIndex(m, k) # {}

\* Map.prototype.set: an existing key keeps its place, a new one goes last
MapSet(m, k, v) ==
    IF MapHas(m, k)
    THEN [i \in 1..Len(m) |-> IF m[i].key = k THEN [key |-> k, val |-> v] ELSE m[i]]
    ELSE Append(m, [key |-> k, val |-> v])

MapDelete(m, k) == SelectSeq(m, LAMBDA e : e.key # k)

\* set without the normalization of the key
hashMapSet_RawKey(m, name, embedding) == MapSet(m, name, embedding)

hashMapSet(m, name, embedding) == MapSet(m, toLowerCase(name), embedding)

\* get without the normalization of the key
hashMapGet_RawKey(m, name) ==
    IF MapHas(m, name)
    THEN Some(m[CHOOSE i \in MapIndex(m, name) : TRUE].val)
    ELSE Null

\* Null is undefined
hashMapGet(m, name) ==
    IF MapHas(m, toLowerCase(name))
    THEN Some(m[CHOOSE i \in MapIndex(m, toLowerCase(name)) : TRUE].val)
    ELSE Null

hashMapHas(m, name) == MapHas(m, toLowerCase(name))

hashMapDelete(m, name) ==
    [m |-> MapDelete(m, toLowerCase(name)), ret |-> MapHas(m, toLowerCase(name))]

entries(m) == m

hashMapClear(m) == <<>>

registerFace(m, name, embedding) == hashMapSet(m, name, embedding)

\* Math.sqrt, in thousandths, of a number given in hundredths: the largest k
\* with k*k <= n * 10^4, found by bisection between lo and hi
RECURSIVE SqrtBetween(_, _, _)
SqrtBetween(n, lo, hi) ==
    IF lo >= hi THEN lo
    ELSE LET mid == (lo + hi + 1) \div 2
         IN  IF mid * mid <= n * 10000
             THEN SqrtBetween(n, mid, hi)
             ELSE SqrtBetween(n, lo, mid - 1)

Sqrt(n) == SqrtBetween(n, 0, 100 * (n + 1))

\* the loop of euclideanDistance from component i on, the sum in hundredths
RECURSIVE SumSquares(_, _, _)
SumSquares(embedding1, embedding2, i) ==
    IF i > Len(embedding1) THEN 0
    ELSE LET diff == embedding1[i] - embedding2[i]
         IN  diff * diff + SumSquares(embedding1, embedding2, i + 1)

euclideanDistance(embedding1, embedding2) ==
    Sqrt(SumSquares(embedding1, embedding2, 1))

\* the scan with the comparison written <=: a later entry at the same
\* distance replaces the candidate
RECURSIVE Scan_KeepLastTie(_, _, _, _)
Scan_KeepLastTie(es, embedding, i, bestMatch) ==
    IF i > Len(es) THEN bestMatch
    ELSE LET distance == euclideanDistance(embedding, es[i].val)
             best1 == IF bestMatch = Null \/ distance <= bestMatch[1].distance
                      THEN <<[name |-> es[i].key, distance |-> distance]>>
                      ELSE bestMatch
         IN  Scan_KeepLastTie(es, embedding, i + 1, best1)

\* the scan without the distance comparison: the first entry stays the
\* candidate
RECURSIVE Scan_KeepFirst(_, _, _, _)
Scan_KeepFirst(es, embedding, i, bestMatch) ==
    IF i > Len(es) THEN bestMatch
    ELSE LET distance == euclideanDistance(embedding, es[i].val)
             best1 == IF bestMatch = Null
                      THEN <<[name |-> es[i].key, distance |-> distance]>>
                      ELSE bestMatch
         IN  Scan_KeepFirst(es, embedding, i + 1, best1)

\* the scan of recognizeFace from entry i on; bestMatch is Null or <<[name, distance]>>
RECURSIVE Scan(_, _, _, _)
Scan(es, embedding, i, bestMatch) ==
    IF i > Len(es) THEN bestMatch
    ELSE LET distance == euclideanDistance(embedding, es[i].val)
             best1 == IF bestMatch = Null \/ distance < bestMatch[1].distance
                      THEN <<[name |-> es[i].key, distance |-> distance]>>
                      ELSE bestMatch
         IN  Scan(es, embedding, i + 1, best1)

Max(a, b) == IF a > b THEN a ELSE b
Min(a, b) == IF a < b THEN a ELSE b

\* recognizeFace with the threshold test written <=
recognizeFace_AtThreshold(m, embedding, threshold) ==
    LET bestMatch == Scan(entries(m), embedding, 1, Null)
    IN  IF bestMatch # Null /\ bestMatch[1].distance <= threshold
        THEN <<[name |-> bestMatch[1].name,
                confidence |-> Max(0, Min(One, One - bestMatch[1].distance))]>>
        ELSE Null

\* recognizeFace without the clamp of the confidence
recognizeFace_NoClamp(m, embedding, threshold) ==
    LET bestMatch == Scan(entries(m), embedding, 1, Null)
    IN  IF bestMatch # Null /\ bestMatch[1].distance < threshold
        THEN <<[name |-> bestMatch[1].name,
                confidence |-> One - bestMatch[1].distance]>>
        ELSE Null

\* recognizeFace that returns the nearest entry whatever its distance
recognizeFace_NoThreshold(m, embedding, threshold) ==
    LET bestMatch == Scan(entries(m), embedding, 1, Null)
    IN  IF bestMatch # Null
        THEN <<[name |-> bestMatch[1].name,
                confidence |-> Max(0, Min(One, One - bestMatch[1].distance))]>>
        ELSE Null

\* the result is Null or <<[name, confidence]>>
recognizeFace(m, embedding, threshold) ==
    LET bestMatch == Scan(entries(m), embedding, 1, Null)
    IN  IF bestMatch # Null /\ bestMatch[1].distance < threshold
        THEN <<[name |-> bestMatch[1].name,
                confidence |-> Max(0, Min(One, One - bestMatch[1].distance))]>>
        ELSE Null

\* the three nets of face-api.js that loadModels loads
Nets == {"tinyFaceDetector", "faceLandmark68Net", "faceRecognitionNet"}

\* loadModels up to its first await without the test of isModelLoaded
loadModelsCall_NoGuard(ready, calls) == Append(calls, {})

\* loadModels up to its first await: nothing when the models are loaded,
\* else the three loads are started
loadModelsCall(ready, calls) == IF ready THEN calls ELSE Append(calls, {})

\* Promise.all that is fulfilled by the first load
promiseAll_First(loaded) == loaded # {}

\* Promise.all over the three loads is fulfilled once all are
promiseAll(loaded) == loaded = Nets

\* the loop of loadFacesFromData from face i on
RECURSIVE SetAll(_, _, _)
SetAll(m, faces, i) ==
    IF i > Len(faces) THEN m
    ELSE SetAll(hashMapSet(m, faces[i].name, faces[i].embedding), faces, i + 1)

\* loadFacesFromData without the clear
loadFacesFromData_NoClear(m, faces) == SetAll(m, faces, 1)

loadFacesFromData(m, faces) == SetAll(hashMapClear(m), faces, 1)

\* ------------------------------------------------------------------------
\* Face quality (utils/faceQuality.ts) and the registration dialog
\* (RegisterDialog)
\* ------------------------------------------------------------------------
TOTAL_SAMPLES == 3

QualityThreshold == 60

\* the face-box to frame area ratio, in hundredths, of a face too close
FaceRatios == {40}

\* the detection score, in hundredths, of a face in the dark: with
\* FaceRatios the overall score is 47 when the face is tilted, else 60
Confidences == {40}

\* Math.round of sum / 3 for a non-negative sum
RoundThird(sum) == (2 * sum + 3) \div 6

\* assessFaceQuality of a detection; tilted is the outcome of the test on the
\* landmarks (horizontalDeviation > 0.2 || eyeAngle > 15)
assessFaceQuality(faceRatio, confidence, tilted) ==
    LET distanceScore == IF faceRatio > 35 THEN 50
                         ELSE IF faceRatio < 8 THEN 40 ELSE 100
        lightingScore == IF confidence > 90 THEN 100
                         ELSE IF confidence > 70 THEN 80
                         ELSE IF confidence > 50 THEN 60 ELSE 30
        angleScore == IF tilted THEN 60 ELSE 100
    IN  [overallScore |-> RoundThird(distanceScore + lightingScore + angleScore)]

\* what detectFaceLoop can see: no face, or a face
Detections ==
    {Null} \cup {<<[faceRatio |-> r, confidence |-> c, tilted |-> t]>> :
                    r \in FaceRatios, c \in Confidences, t \in BOOLEAN}

\* the gate of handleStartCapture without the test of the score
qualityOk_AnyAssessment(metrics) == metrics # Null

\* the negation of `!qualityMetrics || qualityMetrics.overallScore < 60`
qualityOk(metrics) ==
    ~(metrics = Null \/ metrics[1].overallScore < QualityThreshold)

\* String.prototype.trim on strings whose only white space is " "
RECURSIVE trim(_)
trim(str) ==
    IF str = <<>> THEN str
    ELSE IF Head(str) = " " THEN trim(Tail(str))
    ELSE IF str[Len(str)] = " " THEN trim(SubSeq(str, 1, Len(str) - 1))
    ELSE str

\* the names typed into the dialog: blank, registered, new
DialogNames == {<<>>, <<" ">>, <<"A">>, <<"a", " ">>}

\* avgEmbedding of registerWithSamples; the sums of the sampled components
\* are multiples of samples.length
RECURSIVE SumAt(_, _, _)
SumAt(samples, i, k) ==
    IF k = 0 THEN 0 ELSE SumAt(samples, i, k - 1) + samples[k][i]

avgEmbedding(samples) ==
    [i \in 1..Len(samples[1]) |-> SumAt(samples, i, Len(samples)) \div Len(samples)]

\* the answers of the insert: no error, a unique violation, another error
InsertCodes == {"", "23505", "500"}

\* the insert on a table whose name column is UNIQUE
insertAnswers(rows, n) ==
    IF \E r \in 1..Len(rows) : rows[r].name = n
    THEN {"23505", "500"}
    ELSE {"", "500"}

\* the catch block of registerWithSamples with one toast for every error
errorToast_Generic(code) == "Registration Failed"

\* the title of the toast of the catch block of registerWithSamples
errorToast(code) ==
    IF code = "23505" THEN "Name Already Exists" ELSE "Registration Failed"

\* ------------------------------------------------------------------------
\* Orchestration helpers (pages/Index.tsx)
\* ------------------------------------------------------------------------
\* the two embeddings the persisted records and the camera frames carry
SampleEmbeddings ==
    {[i \in 1..Dim |-> 0], [i \in 1..Dim |-> IF i = 1 THEN 3 ELSE 0]}

Reverse(s) == [i \in 1..Len(s) |-> s[Len(s) + 1 - i]]

\* .from('face_embeddings').select('*').order('created_at', {ascending: false})
SelectAll(rows) == Reverse(rows)

\* data.forEach(user => trie.insert(user.name)) from record i on
RECURSIVE InsertAll(_, _, _)
InsertAll(t, data, i) ==
    IF i > Len(data) THEN t
    ELSE InsertAll(insert(t, data[i].name), data, i + 1)

RemoveAt(s, i) == SubSeq(s, 1, i - 1) \o SubSeq(s, i + 1, Len(s))

\* ------------------------------------------------------------------------
\* Recognition pass helpers (pages/Index.tsx, handleFrame)
\* ------------------------------------------------------------------------
MaxResults == 10

\* the descriptors a frame can hold: a face at distance 0 of a stored
\* embedding, and a face far from every stored embedding
FrameEmbeddings ==
    {[i \in 1..Dim |-> 0], [i \in 1..Dim |-> IF i = 1 THEN 10 ELSE 0]}

RECURSIVE SeqsUpTo(_, _)
SeqsUpTo(S, n) ==
    IF n = 0 THEN {<<>>}
    ELSE LET shorter == SeqsUpTo(S, n - 1)
         IN  shorter \cup {Append(q, x) : q \in shorter, x \in S}

Take(q, n) == SubSeq(q, 1, Min(n, Len(q)))

\* the for-loop of handleFrame over the detections, from detection i on
RECURSIVE NewResults(_, _, _, _)
NewResults(m, detections, i, timestamp) ==
    IF i > Len(detections) THEN <<>>
    ELSE LET result == recognizeFace(m, detections[i], DefaultThreshold)
             rest == NewResults(m, detections, i + 1, timestamp)
         IN  IF result # Null
             THEN <<[name |-> result[1].name,
                     confidence |-> result[1].confidence,
                     timestamp |-> timestamp]>> \o rest
             ELSE rest

\* the updater of setRecognitionResults without the slice
UpdateResults_NoSlice(prev, newResults) == newResults \o prev

\* the updater handed to setRecognitionResults
UpdateResults(prev, newResults) == Take(newResults \o prev, MaxResults)

\* a frame with more matching faces than the window holds
CrowdFrame == [k \in 1..(MaxResults + 1) |-> [i \in 1..Dim |-> 0]]

\* the detections a frame can give
Frames == SeqsUpTo(FrameEmbeddings, MaxFaces) \cup {CrowdFrame}

\* stopWebcam on the interval timers: clearInterval(frameIntervalRef.current)
ClearInterval(ts, ref) == {t \in ts : t.id # ref}

\* ------------------------------------------------------------------------
\* State
\* ------------------------------------------------------------------------
VARIABLES
    trie,        \* the Trie instance
    pre,         \* the Trie as it was before the last Trie operation
    lastOp,      \* the last Trie operation, its argument and what it returned
    live,        \* normalized name -> display name of its latest insert, for
                 \* the names inserted and not removed since
    onlyInserts, \* TRUE while the Trie was built by inserts only, of names
                 \* no two of which are equal up to letter case
    hashMap,     \* the FaceHashMap of the faceRecognition singleton
    lastMatch,   \* the last recognizeFace call on the current hashMap,
                 \* with the hashMap it was made on
    isModelLoaded, \* FaceRecognitionEngine.isModelLoaded
    db,          \* the rows of face_embeddings, oldest first
    nextId,      \* the id the next inserted row gets
    loads,       \* the loadFaceData calls in flight, in call order
    users,       \* Index state: users
    isLoading,   \* Index state: isLoading
    lastLoad,    \* the data of the last loadFaceData that completed,
                 \* whether the last call to end has failed, and the
                 \* data of the most recently issued select among the
                 \* calls that have ended
    isActive,    \* Index state: isActive
    isProcessing, \* Index state: isProcessing
    pendingStarts, \* startWebcam calls awaiting getUserMedia, each with the
                 \* id its interval timer will get and the isProcessing its
                 \* handleFrame closure captured
    nStarts,     \* the number of startWebcam calls so far
    metaPending, \* the onloadedmetadata handler waiting to fire, or Null
    timers,      \* the running setInterval timers: id and captured isProcessing
    frameIntervalRef, \* frameIntervalRef.current, 0 when undefined
    inflight,    \* handleFrame calls awaiting detectAllFaces
    passes,      \* recognition passes started so far
    clock,       \* Date.now(), counted in completed passes
    recognitionResults, \* Index state: recognitionResults
    regPre,      \* the FaceHashMap as it was before the last call on it
    regOp,       \* the last call on the FaceHashMap, its arguments and result
    modelCalls,  \* the loadModels calls awaiting Promise.all, each the set
                 \* of the nets it has loaded so far
    nCalls,      \* the number of loadModels calls so far
    engineOp,    \* the last step of loadModels
    open,        \* RegisterDialog state: open
    nameInput,   \* RegisterDialog state: name
    qualityMetrics, \* RegisterDialog state: qualityMetrics, Null when null
    isCapturing, \* RegisterDialog state: isCapturing
    isRegistering, \* RegisterDialog state: isRegistering
    captureCount, \* RegisterDialog state: captureCount
    capturedSamples, \* RegisterDialog state: capturedSamples
    flow,        \* the handleStartCapture call in progress, or Null: the name
                 \* of its closure, its samples array, the await it is at, and
                 \* the qualityMetrics its closure held
    toast,       \* the title of the last toast
    dialogOp,    \* the last step of the dialog when it is a call of
                 \* handleStartCapture or the answer of the insert
    task         \* the synchronous part of loadFaceData that is running,
                 \* step by step (Null when none is)

trieHist == <<pre, lastOp, live, onlyInserts>>

trieVars == <<trie, pre, lastOp, live, onlyInserts>>

matchVars == <<hashMap, lastMatch>>

loadVars == <<isModelLoaded, db, nextId, loads, users, isLoading, lastLoad>>

frameVars == <<isActive, isProcessing, pendingStarts, nStarts, metaPending,
               timers, frameIntervalRef, inflight, passes, clock,
               recognitionResults>>

vars == <<trie, pre, lastOp, live, onlyInserts, hashMap, lastMatch,
          isModelLoaded, db, nextId, loads, users, isLoading, lastLoad,
          isActive, isProcessing, pendingStarts, nStarts, metaPending,
          timers, frameIntervalRef, inflight, passes, clock,
          recognitionResults, regPre, regOp, modelCalls, nCalls, engineOp,
          open, nameInput, qualityMetrics, isCapturing, isRegistering,
          captureCount, capturedSamples, flow, toast, dialogOp, task>>

\* the variables of the component-level specifications, which the actions of
\* the other specifications leave alone
registryHist == <<regPre, regOp>>

engineVars == <<modelCalls, nCalls, engineOp>>

dialogVars == <<open, nameInput, qualityMetrics, isCapturing, isRegistering,
                captureCount, capturedSamples, flow, toast, dialogOp>>

reloadVars == <<task>>

unitVars == <<registryHist, engineVars, dialogVars, reloadVars>>

NoOp == [kind |-> "none", arg |-> <<>>, ret |-> FALSE, names |-> <<>>]

TrieInit ==
    /\ trie = EmptyTrie
    /\ pre = EmptyTrie
    /\ lastOp = NoOp
    /\ live = << >>
    /\ onlyInserts = TRUE

NoMatchCall == [called |-> FALSE, embedding |-> <<>>, threshold |-> 0, result |-> Null,
                before |-> <<>>]

MatchInit ==
    /\ hashMap = <<>>
    /\ lastMatch = NoMatchCall

\* a loadFaceData call: awaiting loadModels, awaiting the select, or holding
\* the response of the select
\* issuedLast marks the call whose select is the most recently issued one
NewLoad == [phase |-> "models", data |-> <<>>, error |-> FALSE, issuedLast |-> FALSE]

\* the state after the first render: the mount effect has called loadFaceData
LoadInit ==
    /\ isModelLoaded = FALSE
    /\ db = <<>>
    /\ nextId = 1
    /\ loads = <<NewLoad>>
    /\ users = <<>>
    /\ isLoading = TRUE
    /\ lastLoad = [done |-> FALSE, data |-> <<>>, failed |-> FALSE,
                   lastIssuedData |-> <<>>]

\* the camera is off and no frame was processed
CameraInit ==
    /\ isActive = FALSE
    /\ isProcessing = FALSE
    /\ pendingStarts = <<>>
    /\ nStarts = 0
    /\ metaPending = Null
    /\ timers = {}
    /\ frameIntervalRef = 0
    /\ inflight = 0
    /\ passes = 0
    /\ clock = 0
    /\ recognitionResults = <<>>

NoRegOp == [kind |-> "none", name |-> <<>>, embedding |-> <<>>, faces |-> <<>>,
            ret |-> FALSE, got |-> Null]

NoDialogOp == [kind |-> "none", code |-> ""]

NoEngineOp == [kind |-> "none", wasReady |-> FALSE, loaded |-> {}]

UnitInit ==
    /\ regPre = <<>>
    /\ regOp = NoRegOp
    /\ modelCalls = <<>>
    /\ nCalls = 0
    /\ engineOp = NoEngineOp
    /\ open = FALSE
    /\ nameInput = <<>>
    /\ qualityMetrics = Null
    /\ isCapturing = FALSE
    /\ isRegistering = FALSE
    /\ captureCount = 0
    /\ capturedSamples = <<>>
    /\ flow = Null
    /\ toast = ""
    /\ dialogOp = NoDialogOp
    /\ task = Null

Init == TrieInit /\ MatchInit /\ LoadInit /\ CameraInit /\ UnitInit

\* the rows of a database with two registered faces, and the state of the
\* page once its first loadFaceData has completed on them
SampleRows ==
    <<[id |-> 1, name |-> <<"A">>, embedding |-> [i \in 1..Dim |-> 0]],
      [id |-> 2, name |-> <<"b">>, embedding |-> [i \in 1..Dim |-> IF i = 1 THEN 3 ELSE 0]]>>

LoadedInit ==
    /\ trie = InsertAll(EmptyTrie, SelectAll(SampleRows), 1)
    /\ pre = EmptyTrie
    /\ lastOp = NoOp
    /\ live = << >>
    /\ onlyInserts = TRUE
    /\ hashMap = loadFacesFromData(<<>>, SelectAll(SampleRows))
    /\ lastMatch = NoMatchCall
    /\ isModelLoaded = TRUE
    /\ db = SampleRows
    /\ nextId = 3
    /\ loads = <<>>
    /\ users = SelectAll(SampleRows)
    /\ isLoading = FALSE
    /\ lastLoad = [done |-> TRUE, data |-> SelectAll(SampleRows), failed |-> FALSE,
                   lastIssuedData |-> SelectAll(SampleRows)]

FrameInit == LoadedInit /\ CameraInit /\ UnitInit

\* ------------------------------------------------------------------------
\* Trie operations
\* ------------------------------------------------------------------------
Insert(name) ==
    LET lowerName == toLowerCase(name)
    IN  /\ Cardinality(DOMAIN live \cup {lowerName}) <= MaxNames
        /\ trie' = insert(trie, name)
        /\ pre' = trie
        /\ lastOp' = [kind |-> "insert", arg |-> name, ret |-> FALSE, names |-> <<>>]
        /\ live' = [n \in DOMAIN live \cup {lowerName} |->
                        IF n = lowerName THEN name ELSE live[n]]
        /\ onlyInserts' = (onlyInserts /\ lowerName \notin DOMAIN live)
        /\ UNCHANGED <<unitVars, matchVars, loadVars, frameVars>>

Remove(name) ==
    LET r == remove(trie, name)
    IN  /\ trie' = r.t
        /\ pre' = trie
        /\ lastOp' = [kind |-> "remove", arg |-> name, ret |-> r.ret, names |-> <<>>]
        /\ live' = [n \in DOMAIN live \ {toLowerCase(name)} |-> live[n]]
        /\ onlyInserts' = FALSE
        /\ UNCHANGED <<unitVars, matchVars, loadVars, frameVars>>

Search(prefix) ==
    /\ trie' = trie
    /\ pre' = trie
    /\ lastOp' = [kind |-> "searchWithPrefix", arg |-> prefix, ret |-> FALSE,
                  names |-> searchWithPrefix(trie, prefix)]
    /\ UNCHANGED <<unitVars, live, onlyInserts, matchVars, loadVars, frameVars>>

Exists(name) ==
    /\ trie' = trie
    /\ pre' = trie
    /\ lastOp' = [kind |-> "exists", arg |-> name, ret |-> exists(trie, name),
                  names |-> <<>>]
    /\ UNCHANGED <<unitVars, live, onlyInserts, matchVars, loadVars, frameVars>>

TrieNext ==
    \/ \E name \in Names : Insert(name)
    \/ \E name \in Names : Remove(name)
    \/ \E prefix \in Names : Search(prefix)
    \/ \E name \in Names : Exists(name)

SpecTrie == Init /\ [][TrieNext]_vars

\* ------------------------------------------------------------------------
\* Registry and matcher operations
\* ------------------------------------------------------------------------
RegisterFace(name, embedding) ==
    /\ hashMap' = registerFace(hashMap, name, embedding)
    /\ lastMatch' = NoMatchCall
    /\ UNCHANGED <<unitVars, trieVars, loadVars, frameVars>>

HashMapDelete(name) ==
    /\ hashMap' = hashMapDelete(hashMap, name).m
    /\ lastMatch' = NoMatchCall
    /\ UNCHANGED <<unitVars, trieVars, loadVars, frameVars>>

RecognizeFace(embedding, threshold) ==
    /\ lastMatch' = [called |-> TRUE, embedding |-> embedding,
                     threshold |-> threshold,
                     result |-> recognizeFace(hashMap, embedding, threshold),
                     before |-> hashMap]
    /\ UNCHANGED <<unitVars, hashMap, trieVars, loadVars, frameVars>>

MatchNext ==
    \/ \E name \in FaceNames, embedding \in Embeddings : RegisterFace(name, embedding)
    \/ \E name \in FaceNames : HashMapDelete(name)
    \/ \E embedding \in Embeddings, threshold \in Thresholds :
            RecognizeFace(embedding, threshold)

SpecMatch == Init /\ [][MatchNext]_vars

\* ------------------------------------------------------------------------
\* The FaceHashMap on its own: every method, and the full reload
\* ------------------------------------------------------------------------
\* the records a reload can carry: one per name, those of "a" and "A"
\* with different embeddings
FaceRecords ==
    {r \in [name : FaceNames, embedding : SampleEmbeddings] :
        (r.name = <<"A">>) <=> (r.embedding[1] # 0)}

RegistrySet(name, embedding) ==
    /\ hashMap' = hashMapSet(hashMap, name, embedding)
    /\ regPre' = hashMap
    /\ regOp' = [NoRegOp EXCEPT !.kind = "set", !.name = name, !.embedding = embedding]
    /\ UNCHANGED <<lastMatch, trieVars, loadVars, frameVars, engineVars, dialogVars,
                   reloadVars>>

RegistryGet(name) ==
    /\ regPre' = hashMap
    /\ regOp' = [NoRegOp EXCEPT !.kind = "get", !.name = name,
                                !.got = hashMapGet(hashMap, name)]
    /\ UNCHANGED <<matchVars, trieVars, loadVars, frameVars, engineVars, dialogVars,
                   reloadVars>>

RegistryHas(name) ==
    /\ regPre' = hashMap
    /\ regOp' = [NoRegOp EXCEPT !.kind = "has", !.name = name,
                                !.ret = hashMapHas(hashMap, name)]
    /\ UNCHANGED <<matchVars, trieVars, loadVars, frameVars, engineVars, dialogVars,
                   reloadVars>>

RegistryDelete(name) ==
    /\ hashMap' = hashMapDelete(hashMap, name).m
    /\ regPre' = hashMap
    /\ regOp' = [NoRegOp EXCEPT !.kind = "delete", !.name = name,
                                !.ret = hashMapDelete(hashMap, name).ret]
    /\ UNCHANGED <<lastMatch, trieVars, loadVars, frameVars, engineVars, dialogVars,
                   reloadVars>>

RegistryClear ==
    /\ hashMap' = hashMapClear(hashMap)
    /\ regPre' = hashMap
    /\ regOp' = [NoRegOp EXCEPT !.kind = "clear"]
    /\ UNCHANGED <<lastMatch, trieVars, loadVars, frameVars, engineVars, dialogVars,
                   reloadVars>>

LoadFacesFromData(faces) ==
    /\ hashMap' = loadFacesFromData(hashMap, faces)
    /\ regPre' = hashMap
    /\ regOp' = [NoRegOp EXCEPT !.kind = "loadFacesFromData", !.faces = faces]
    /\ UNCHANGED <<lastMatch, trieVars, loadVars, frameVars, engineVars, dialogVars,
                   reloadVars>>

RegistryNext ==
    \/ \E name \in FaceNames, embedding \in SampleEmbeddings : RegistrySet(name, embedding)
    \/ \E name \in FaceNames : RegistryGet(name)
    \/ \E name \in FaceNames : RegistryHas(name)
    \/ \E name \in FaceNames : RegistryDelete(name)
    \/ RegistryClear
    \/ \E faces \in SeqsUpTo(FaceRecords, MaxFaces) : LoadFacesFromData(faces)

SpecRegistry == Init /\ [][RegistryNext]_vars

\* ------------------------------------------------------------------------
\* The engine's model state on its own: loadModels, the three loads of a
\* call resolving or rejecting in any order, calls overlapping
\* ------------------------------------------------------------------------
LoadModels ==
    /\ nCalls < MaxCalls
    /\ nCalls' = nCalls + 1
    /\ modelCalls' = loadModelsCall(isModelLoaded, modelCalls)
    /\ engineOp' = [NoEngineOp EXCEPT !.kind = "loadModels", !.wasReady = isModelLoaded]
    /\ UNCHANGED <<isModelLoaded, db, nextId, loads, users, isLoading, lastLoad,
                   trieVars, matchVars, frameVars, registryHist, dialogVars, reloadVars>>

\* one of the loads of call c resolves; with the last one Promise.all
\* resolves and the call sets isModelLoaded
NetLoaded(c, net) ==
    /\ c \in 1..Len(modelCalls)
    /\ net \notin modelCalls[c]
    /\ LET loaded == modelCalls[c] \cup {net}
       IN  /\ IF promiseAll(loaded)
              THEN /\ isModelLoaded' = TRUE
                   /\ modelCalls' = RemoveAt(modelCalls, c)
              ELSE /\ modelCalls' = [modelCalls EXCEPT ![c] = loaded]
                   /\ UNCHANGED isModelLoaded
           /\ engineOp' = [NoEngineOp EXCEPT !.kind = "netLoaded",
                                !.wasReady = isModelLoaded, !.loaded = loaded]
    /\ UNCHANGED <<nCalls, db, nextId, loads, users, isLoading, lastLoad,
                   trieVars, matchVars, frameVars, registryHist, dialogVars, reloadVars>>

\* one of the loads of call c rejects: Promise.all rejects and the call
\* throws 'Failed to load face recognition models'
NetFailed(c, net) ==
    /\ c \in 1..Len(modelCalls)
    /\ net \notin modelCalls[c]
    /\ modelCalls' = RemoveAt(modelCalls, c)
    /\ engineOp' = [NoEngineOp EXCEPT !.kind = "netFailed",
                        !.wasReady = isModelLoaded, !.loaded = modelCalls[c]]
    /\ UNCHANGED <<nCalls, isModelLoaded, db, nextId, loads, users, isLoading,
                   lastLoad, trieVars, matchVars, frameVars, registryHist, dialogVars, reloadVars>>

EngineNext ==
    \/ LoadModels
    \/ \E c \in 1..MaxCalls, net \in Nets : NetLoaded(c, net)
    \/ \E c \in 1..MaxCalls, net \in Nets : NetFailed(c, net)

SpecEngine == Init /\ [][EngineNext]_vars

\* ------------------------------------------------------------------------
\* Loading, registration and deletion (pages/Index.tsx, RegisterDialog.tsx,
\* UsersList.tsx)
\* ------------------------------------------------------------------------
\* loadFaceData up to `await faceRecognition.loadModels()`: nothing to load
\* when the models are loaded, else the three loads succeed
LoadModelsOk(i) ==
    /\ loads[i].phase = "models"
    /\ isModelLoaded' = TRUE
    /\ loads' = [j \in 1..Len(loads) |->
                    IF j = i
                    THEN [loads[j] EXCEPT !.phase = "fetch", !.issuedLast = TRUE]
                    ELSE [loads[j] EXCEPT !.issuedLast = FALSE]]
    /\ UNCHANGED <<unitVars, db, nextId, users, isLoading, lastLoad, hashMap, trie, trieHist, lastMatch, frameVars>>

\* loadModels throws: the catch block of loadFaceData ends the call
LoadModelsFail(i) ==
    /\ loads[i].phase = "models"
    /\ ~isModelLoaded
    /\ loads' = RemoveAt(loads, i)
    /\ isLoading' = FALSE
    /\ lastLoad' = [lastLoad EXCEPT !.failed = TRUE]
    /\ UNCHANGED <<unitVars, isModelLoaded, db, nextId, users, hashMap, trie, trieHist,
                   lastMatch, frameVars>>

\* the select runs on the database: it answers the rows of that moment, or
\* an error
Fetch(i, failed) ==
    /\ loads[i].phase = "fetch"
    /\ loads' = [loads EXCEPT ![i] =
                    [phase |-> "response",
                     data |-> IF failed THEN <<>> ELSE SelectAll(db),
                     error |-> failed,
                     issuedLast |-> loads[i].issuedLast]]
    /\ UNCHANGED <<unitVars, isModelLoaded, db, nextId, users, isLoading, lastLoad, hashMap, trie, trieHist, lastMatch, frameVars>>

\* the record of the ended calls after the call of this response has ended
Ended(last, response) ==
    IF response.issuedLast
    THEN [last EXCEPT !.lastIssuedData = response.data]
    ELSE last

\* the Registry had loadFacesFromData been called before `if (error) throw
\* error`, on the empty data of a failed select
loadedFaces_BeforeThrow(m, response) == loadFacesFromData(m, response.data)

\* the Registry after the response: a failed select throws before
\* loadFacesFromData is reached
loadedFaces(m, response) ==
    IF response.error THEN m ELSE loadFacesFromData(m, response.data)

\* the rest of loadFaceData, once the response is there
LoadApply(i) ==
    /\ loads[i].phase = "response"
    /\ loads' = RemoveAt(loads, i)
    /\ isLoading' = FALSE
    /\ hashMap' = loadedFaces(hashMap, loads[i])
    /\ IF loads[i].error
       THEN /\ lastLoad' = [Ended(lastLoad, loads[i]) EXCEPT !.failed = TRUE]
            /\ UNCHANGED <<users, trie>>
       ELSE /\ users' = loads[i].data
            /\ trie' = InsertAll(trie, loads[i].data, 1)
            /\ lastLoad' = [Ended(lastLoad, loads[i]) EXCEPT
                                !.done = TRUE, !.data = loads[i].data, !.failed = FALSE]
    /\ UNCHANGED <<unitVars, isModelLoaded, db, nextId, trieHist, lastMatch, frameVars>>

\* handleRegister with a face in view: the insert succeeds when the name is
\* new (name is UNIQUE), and onRegister calls loadFaceData
Register(name, embedding) ==
    /\ ~isLoading
    /\ isModelLoaded
    /\ nextId <= MaxRegs
    /\ Len(loads) < MaxLoads
    /\ name # <<>>
    /\ \A r \in 1..Len(db) : db[r].name # name
    /\ db' = Append(db, [id |-> nextId, name |-> name, embedding |-> embedding])
    /\ nextId' = nextId + 1
    /\ loads' = Append(loads, NewLoad)
    /\ UNCHANGED <<unitVars, isModelLoaded, users, isLoading, lastLoad, hashMap, trie, trieHist, lastMatch, frameVars>>

\* handleDelete of a listed user: the row of that id is deleted, and onUpdate
\* calls loadFaceData
Delete(u) ==
    /\ ~isLoading
    /\ u \in 1..Len(users)
    /\ Len(loads) < MaxLoads
    /\ db' = SelectSeq(db, LAMBDA row : row.id # users[u].id)
    /\ loads' = Append(loads, NewLoad)
    /\ UNCHANGED <<unitVars, isModelLoaded, nextId, users, isLoading, lastLoad, hashMap, trie, trieHist, lastMatch, frameVars>>

LoadNext ==
    \/ \E i \in 1..Len(loads) : LoadModelsOk(i)
    \/ \E i \in 1..Len(loads) : LoadModelsFail(i)
    \/ \E i \in 1..Len(loads), failed \in BOOLEAN : Fetch(i, failed)
    \/ \E i \in 1..Len(loads) : LoadApply(i)
    \/ \E name \in FaceNames, embedding \in SampleEmbeddings : Register(name, embedding)
    \/ \E u \in 1..MaxRegs : Delete(u)

SpecLoad == Init /\ [][LoadNext]_vars

\* the page is opened on a database that holds two registered faces
PersistedInit ==
    /\ TrieInit /\ MatchInit /\ CameraInit /\ UnitInit
    /\ isModelLoaded = FALSE
    /\ db = SampleRows
    /\ nextId = Len(SampleRows) + 1
    /\ loads = <<NewLoad>>
    /\ users = <<>>
    /\ isLoading = TRUE
    /\ lastLoad = [done |-> FALSE, data |-> <<>>, failed |-> FALSE,
                   lastIssuedData |-> <<>>]

\* loads that succeed or fail, with the deletions of the users list
LoadFailNext ==
    \/ \E i \in 1..Len(loads) : LoadModelsOk(i)
    \/ \E i \in 1..Len(loads) : LoadModelsFail(i)
    \/ \E i \in 1..Len(loads), failed \in BOOLEAN : Fetch(i, failed)
    \/ \E i \in 1..Len(loads) : LoadApply(i)
    \/ \E u \in 1..MaxRegs : Delete(u)

SpecLoadFail == PersistedInit /\ [][LoadFailNext]_vars

\* deletions in quick succession, every select answering its rows
OverlapNext ==
    \/ \E u \in 1..MaxRegs : Delete(u)
    \/ \E i \in 1..Len(loads) : LoadModelsOk(i)
    \/ \E i \in 1..Len(loads) : Fetch(i, FALSE)
    \/ \E i \in 1..Len(loads) : LoadApply(i)

\* the page once its first load has completed, with the deletions of the
\* users list and their reloads
SpecOverlap == FrameInit /\ [][OverlapNext]_vars

\* ------------------------------------------------------------------------
\* The registration dialog (RegisterDialog): its handlers, the quality
\* loop, and the awaits of handleStartCapture and registerWithSamples
\* ------------------------------------------------------------------------
\* handleOpenChange(true); the trigger is disabled until the engine is ready
OpenDialog ==
    /\ ~open
    /\ isModelLoaded
    /\ open' = TRUE
    /\ dialogOp' = NoDialogOp
    /\ UNCHANGED <<nameInput, qualityMetrics, isCapturing, isRegistering, captureCount,
                   capturedSamples, flow, toast, loadVars, trieVars, matchVars,
                   frameVars, registryHist, engineVars, reloadVars>>

\* handleOpenChange(false)
CloseDialog ==
    /\ open
    /\ open' = FALSE
    /\ nameInput' = <<>>
    /\ captureCount' = 0
    /\ capturedSamples' = <<>>
    /\ qualityMetrics' = Null
    /\ dialogOp' = NoDialogOp
    /\ UNCHANGED <<isCapturing, isRegistering, flow, toast, loadVars, trieVars,
                   matchVars, frameVars, registryHist, engineVars, reloadVars>>

\* onChange of the nameInput input, which is disabled while registering
SetName(n) ==
    /\ open
    /\ ~isRegistering
    /\ nameInput' = n
    /\ dialogOp' = NoDialogOp
    /\ UNCHANGED <<open, qualityMetrics, isCapturing, isRegistering, captureCount,
                   capturedSamples, flow, toast, loadVars, trieVars, matchVars,
                   frameVars, registryHist, engineVars, reloadVars>>

\* one round of detectFaceLoop, which runs while the dialog is open
DetectFaceLoop(detection) ==
    /\ open
    /\ qualityMetrics' =
            IF detection = Null THEN Null
            ELSE Some(assessFaceQuality(detection[1].faceRatio,
                                        detection[1].confidence,
                                        detection[1].tilted))
    /\ dialogOp' = NoDialogOp
    /\ UNCHANGED <<open, nameInput, isCapturing, isRegistering, captureCount,
                   capturedSamples, flow, toast, loadVars, trieVars, matchVars,
                   frameVars, registryHist, engineVars, reloadVars>>

\* handleStartCapture up to its first await.  The button is disabled while
\* capturing or registering; its two other conditions are tested again by
\* the handler.
HandleStartCapture ==
    /\ open
    /\ ~isRegistering
    /\ ~isCapturing
    /\ dialogOp' = [NoDialogOp EXCEPT !.kind = "handleStartCapture"]
    /\ IF trim(nameInput) = <<>>
       THEN /\ toast' = "Name Required"
            /\ UNCHANGED <<isCapturing, capturedSamples, captureCount, flow>>
       ELSE IF ~qualityOk(qualityMetrics)
       THEN /\ toast' = "Improve Face Quality"
            /\ UNCHANGED <<isCapturing, capturedSamples, captureCount, flow>>
       ELSE /\ isCapturing' = TRUE
            /\ capturedSamples' = <<>>
            /\ captureCount' = 1
            /\ flow' = Some([name |-> nameInput, samples |-> <<>>, at |-> "captureSample",
                              quality |-> qualityMetrics])
            /\ UNCHANGED toast
    /\ UNCHANGED <<open, nameInput, qualityMetrics, isRegistering, loadVars, trieVars,
                   matchVars, frameVars, registryHist, engineVars, reloadVars>>

\* `await captureSample()` resolves, with an embedding or with null; after
\* the last sample registerWithSamples runs up to the insert
\* the loop test of handleStartCapture, with n samples obtained
moreSamples_OneShot(n) == n < 1

moreSamples(n) == n < TOTAL_SAMPLES

CaptureSample(embedding) ==
    /\ flow # Null
    /\ flow[1].at = "captureSample"
    /\ dialogOp' = NoDialogOp
    /\ IF embedding = Null
       THEN /\ toast' = "Capture Failed"
            /\ isCapturing' = FALSE
            /\ captureCount' = 0
            /\ flow' = Null
            /\ UNCHANGED <<capturedSamples, isRegistering>>
       ELSE LET samples == Append(flow[1].samples, embedding[1])
            IN  /\ capturedSamples' = samples
                /\ IF moreSamples(Len(samples))
                   THEN /\ captureCount' = Len(samples) + 1
                        /\ flow' = Some([flow[1] EXCEPT !.samples = samples])
                        /\ UNCHANGED isRegistering
                   ELSE /\ isRegistering' = TRUE
                        /\ flow' = Some([flow[1] EXCEPT !.samples = samples,
                                                        !.at = "insert"])
                        /\ UNCHANGED captureCount
                /\ UNCHANGED <<toast, isCapturing>>
    /\ UNCHANGED <<open, nameInput, qualityMetrics, loadVars, trieVars, matchVars,
                   frameVars, registryHist, engineVars, reloadVars>>

\* the insert answers: the rest of registerWithSamples, and of
\* handleStartCapture.  onRegister is loadFaceData.
InsertDone(code) ==
    /\ flow # Null
    /\ flow[1].at = "insert"
    /\ code \in insertAnswers(db, trim(flow[1].name))
    /\ dialogOp' = [kind |-> "insert", code |-> code]
    /\ IF code = ""
       THEN /\ db' = Append(db, [id |-> nextId, name |-> trim(flow[1].name),
                                 embedding |-> avgEmbedding(flow[1].samples)])
            /\ nextId' = nextId + 1
            /\ toast' = "Success!"
            /\ nameInput' = <<>>
            /\ captureCount' = 0
            /\ capturedSamples' = <<>>
            /\ open' = FALSE
            /\ loads' = Append(loads, NewLoad)
       ELSE /\ toast' = errorToast(code)
            /\ UNCHANGED <<db, nextId, nameInput, captureCount, capturedSamples, open, loads>>
    /\ isRegistering' = FALSE
    /\ isCapturing' = FALSE
    /\ flow' = Null
    /\ UNCHANGED <<qualityMetrics, isModelLoaded, users, isLoading, lastLoad,
                   trieVars, matchVars, frameVars, registryHist, engineVars, reloadVars>>

DialogNext ==
    \/ OpenDialog
    \/ CloseDialog
    \/ \E n \in DialogNames : SetName(n)
    \/ \E detection \in Detections : DetectFaceLoop(detection)
    \/ HandleStartCapture
    \/ \E embedding \in {Null} \cup {Some(e) : e \in SampleEmbeddings} :
            CaptureSample(embedding)
    \/ \E code \in InsertCodes : InsertDone(code)
    \/ \E i \in 1..Len(loads) : LoadModelsOk(i)
    \/ \E i \in 1..Len(loads), failed \in BOOLEAN : Fetch(i, failed)
    \/ \E i \in 1..Len(loads) : LoadApply(i)

\* the page once its first load has completed, the dialog closed
SpecDialog == FrameInit /\ [][DialogNext]_vars

\* ------------------------------------------------------------------------
\* Camera and recognition loop (WebcamCapture.tsx, pages/Index.tsx)
\*
\* A render of Index creates a handleFrame closure over the isActive and
\* isProcessing of that render.  startWebcam runs in the effect of the render
\* in which isActive became true, and the interval callback it installs keeps
\* calling the onFrame of that render.
\* ------------------------------------------------------------------------
\* the effect of WebcamCapture on a change of isActive: the cleanup of the
\* previous effect (stopWebcam), then startWebcam or stopWebcam.  stopWebcam
\* clears the interval of frameIntervalRef and resets srcObject, so that a
\* pending loadedmetadata no longer fires.
ActiveChanged(active) ==
    /\ isActive' = active
    /\ timers' = ClearInterval(timers, frameIntervalRef)
    /\ metaPending' = Null
    /\ IF active
       THEN /\ pendingStarts' = Append(pendingStarts,
                    [id |-> nStarts + 1, capProcessing |-> isProcessing])
            /\ nStarts' = nStarts + 1
       ELSE UNCHANGED <<pendingStarts, nStarts>>

\* onToggle / Ctrl+C: setIsActive(!isActive)
Toggle ==
    /\ ~isActive => nStarts < MaxStarts
    /\ ActiveChanged(~isActive)
    /\ UNCHANGED <<unitVars, isProcessing, frameIntervalRef, inflight, passes, clock,
                   recognitionResults, trieVars, matchVars, loadVars>>

\* startWebcam after `await getUserMedia`: srcObject and onloadedmetadata
\* are set
GetUserMediaOk(k) ==
    /\ k \in 1..Len(pendingStarts)
    /\ pendingStarts' = RemoveAt(pendingStarts, k)
    /\ metaPending' = <<pendingStarts[k]>>
    /\ UNCHANGED <<unitVars, isActive, isProcessing, nStarts, timers, frameIntervalRef,
                   inflight, passes, clock, recognitionResults,
                   trieVars, matchVars, loadVars>>

\* getUserMedia rejects: the catch block calls onToggle of the render that
\* started the camera, which is setIsActive(!true)
GetUserMediaFail(k) ==
    /\ k \in 1..Len(pendingStarts)
    /\ IF isActive
       THEN /\ isActive' = FALSE
            /\ timers' = ClearInterval(timers, frameIntervalRef)
            /\ metaPending' = Null
       ELSE UNCHANGED <<isActive, timers, metaPending>>
    /\ pendingStarts' = RemoveAt(pendingStarts, k)
    /\ UNCHANGED <<unitVars, isProcessing, nStarts, frameIntervalRef, inflight, passes,
                   clock, recognitionResults, trieVars, matchVars, loadVars>>

\* onloadedmetadata: play and setInterval(..., 1000)
LoadedMetadata ==
    /\ metaPending # Null
    /\ timers' = timers \cup {metaPending[1]}
    /\ frameIntervalRef' = metaPending[1].id
    /\ metaPending' = Null
    /\ UNCHANGED <<unitVars, isActive, isProcessing, pendingStarts, nStarts, inflight,
                   passes, clock, recognitionResults, trieVars, matchVars, loadVars>>

\* a tick of an interval timer: handleFrame of the closure the timer holds,
\* up to `await detectAllFaces`.  The closure's isActive is true.
Tick(t) ==
    /\ t \in timers
    /\ ~t.capProcessing
    /\ passes < MaxPasses
    /\ isProcessing' = TRUE
    /\ inflight' = inflight + 1
    /\ passes' = passes + 1
    /\ UNCHANGED <<unitVars, isActive, pendingStarts, nStarts, metaPending, timers,
                   frameIntervalRef, clock, recognitionResults,
                   trieVars, matchVars, loadVars>>

\* the busy flag at the end of a pass, had the reset been the last statement
\* of the try block
afterPass_ResetInTry(busy, threw) == IF threw THEN busy ELSE FALSE

\* the busy flag at the end of a pass: `finally { setIsProcessing(false) }`
afterPass(busy, threw) == FALSE

\* detectAllFaces resolves with the detections: the rest of handleFrame
DetectionDone(detections) ==
    /\ inflight > 0
    /\ LET newResults == NewResults(hashMap, detections, 1, clock)
       IN  recognitionResults' =
                IF Len(newResults) > 0
                THEN UpdateResults(recognitionResults, newResults)
                ELSE recognitionResults
    /\ isProcessing' = afterPass(isProcessing, FALSE)
    /\ inflight' = inflight - 1
    /\ clock' = clock + 1
    /\ UNCHANGED <<unitVars, isActive, pendingStarts, nStarts, metaPending, timers,
                   frameIntervalRef, passes, trieVars, matchVars, loadVars>>

\* detectAllFaces rejects: catch, then finally
DetectionThrows ==
    /\ inflight > 0
    /\ isProcessing' = afterPass(isProcessing, TRUE)
    /\ inflight' = inflight - 1
    /\ clock' = clock + 1
    /\ UNCHANGED <<unitVars, isActive, pendingStarts, nStarts, metaPending, timers,
                   frameIntervalRef, passes, recognitionResults,
                   trieVars, matchVars, loadVars>>

FrameNext ==
    \/ Toggle
    \/ \E k \in 1..MaxStarts : GetUserMediaOk(k)
    \/ \E k \in 1..MaxStarts : GetUserMediaFail(k)
    \/ LoadedMetadata
    \/ \E t \in timers : Tick(t)
    \/ \E detections \in Frames : DetectionDone(detections)
    \/ DetectionThrows

SpecFrame == FrameInit /\ [][FrameNext]_vars

\* the frames of no face and of one face
SmallFrames == {f \in Frames : Len(f) <= 1}

\* the promise of detectAllFaces settles: it resolves or rejects
DetectionSettles ==
    \/ \E detections \in SmallFrames : DetectionDone(detections)
    \/ DetectionThrows

FrameFairNext ==
    \/ Toggle
    \/ \E k \in 1..MaxStarts : GetUserMediaOk(k)
    \/ \E k \in 1..MaxStarts : GetUserMediaFail(k)
    \/ LoadedMetadata
    \/ \E t \in timers : Tick(t)
    \/ \E detections \in SmallFrames : DetectionDone(detections)
    \/ DetectionThrows

\* the recognition loop in which every detection settles
SpecFrameFair == FrameInit /\ [][FrameFairNext]_vars /\ WF_vars(DetectionSettles)

\* ------------------------------------------------------------------------
\* loadFaceData statement by statement, on the event loop: a handler runs
\* to its next await before another handler starts
\* ------------------------------------------------------------------------
\* loadFaceData with an await inside loadFacesFromData
awaitsAt_InLoadFaces(at) == at \in {"models", "fetch", "set"}

\* the positions of loadFaceData at which it awaits
awaitsAt(at) == at \in {"models", "fetch"}

\* no handler is in the middle of its synchronous part
eventLoopFree == IF task = Null THEN TRUE ELSE awaitsAt(task[1].at)

\* the response is there: `if (error) throw error`, or setUsers(data)
ApplyBegin(i) ==
    /\ task = Null
    /\ loads[i].phase = "response"
    /\ loads' = RemoveAt(loads, i)
    /\ IF loads[i].error
       THEN /\ isLoading' = FALSE
            /\ lastLoad' = [Ended(lastLoad, loads[i]) EXCEPT !.failed = TRUE]
            /\ UNCHANGED <<users, task>>
       ELSE /\ users' = loads[i].data
            /\ task' = Some([data |-> loads[i].data, at |-> "clear", k |-> 1])
            /\ lastLoad' = Ended(lastLoad, loads[i])
            /\ UNCHANGED isLoading
    /\ UNCHANGED <<registryHist, engineVars, dialogVars, isModelLoaded, db, nextId,
                   trieVars, matchVars, frameVars>>

\* the next statement: faceHashMap.clear(), one faceHashMap.set, one
\* trie.insert, or setIsLoading(false)
ApplyStep ==
    /\ task # Null
    /\ LET data == task[1].data
           k == task[1].k
       IN  CASE task[1].at = "clear" ->
                    /\ hashMap' = hashMapClear(hashMap)
                    /\ task' = Some([task[1] EXCEPT !.at = "set"])
                    /\ UNCHANGED <<trie, isLoading, lastLoad>>
             [] task[1].at = "set" /\ k <= Len(data) ->
                    /\ hashMap' = hashMapSet(hashMap, data[k].name, data[k].embedding)
                    /\ task' = Some([task[1] EXCEPT !.k = k + 1])
                    /\ UNCHANGED <<trie, isLoading, lastLoad>>
             [] task[1].at = "set" /\ k > Len(data) ->
                    /\ task' = Some([task[1] EXCEPT !.at = "insert", !.k = 1])
                    /\ UNCHANGED <<hashMap, trie, isLoading, lastLoad>>
             [] task[1].at = "insert" /\ k <= Len(data) ->
                    /\ trie' = insert(trie, data[k].name)
                    /\ task' = Some([task[1] EXCEPT !.k = k + 1])
                    /\ UNCHANGED <<hashMap, isLoading, lastLoad>>
             [] task[1].at = "insert" /\ k > Len(data) ->
                    /\ isLoading' = FALSE
                    /\ lastLoad' = [lastLoad EXCEPT
                                        !.done = TRUE, !.data = data, !.failed = FALSE]
                    /\ task' = Null
                    /\ UNCHANGED <<hashMap, trie>>
    /\ UNCHANGED <<registryHist, engineVars, dialogVars, isModelLoaded, db, nextId,
                   loads, users, trieHist, lastMatch, frameVars>>

\* the queries typed into the search box (an empty query is not searched)
SearchInputs == {<<"a">>, <<"b">>}

\* the frames of one face
OneFaceFrames == {f \in Frames : Len(f) = 1}

ReloadNext ==
    \/ eventLoopFree /\ \E u \in 1..MaxRegs : Delete(u)
    \/ eventLoopFree /\ \E i \in 1..Len(loads) : LoadModelsOk(i)
    \/ eventLoopFree /\ \E i \in 1..Len(loads), failed \in BOOLEAN : Fetch(i, failed)
    \/ \E i \in 1..Len(loads) : ApplyBegin(i)
    \/ ApplyStep
    \/ eventLoopFree /\ \E prefix \in SearchInputs : Search(prefix)
    \/ eventLoopFree /\ \E t \in timers : Tick(t)
    \/ eventLoopFree /\ \E detections \in OneFaceFrames : DetectionDone(detections)

\* the camera switched on and its interval timer running
RunningInit ==
    /\ isActive = TRUE
    /\ isProcessing = FALSE
    /\ pendingStarts = <<>>
    /\ nStarts = 1
    /\ metaPending = Null
    /\ timers = {[id |-> 1, capProcessing |-> FALSE]}
    /\ frameIntervalRef = 1
    /\ inflight = 0
    /\ passes = 0
    /\ clock = 0
    /\ recognitionResults = <<>>

\* the page once its first load has completed and the camera is on, with
\* later deletions, the frame timer and the search box
ReloadInit == LoadedInit /\ RunningInit /\ UnitInit

SpecReload == ReloadInit /\ [][ReloadNext]_vars

\* ------------------------------------------------------------------------
\* Properties of the Trie
\* ------------------------------------------------------------------------
Count(seq, x) == Cardinality({i \in 1..Len(seq) : seq[i] = x})

\* the normalized form of name is a terminal node of t (read off the node
\* store, not by walking)
Stored(t, name) ==
    toLowerCase(name) \in DOMAIN t /\ t[toLowerCase(name)].isEndOfWord

PrefixesOf(s) == {SubSeq(s, 1, i) : i \in 0..Len(s)}

\* C3: remove(name) returns true exactly when the normalized name was
\* present and terminal immediately before the call.
C3_RemoveReturnsWhetherRemoved ==
    lastOp.kind = "remove" => (lastOp.ret <=> Stored(pre, lastOp.arg))

\* C4: after inserting a set of distinct names (no two equal up to letter
\* case) into an empty Trie, in any order, searchWithPrefix("") returns
\* exactly that set with the casing inserted, nothing repeated.
C4_RoundTrip ==
    onlyInserts =>
        LET res == searchWithPrefix(trie, <<>>)
        IN  /\ Range(res) = {live[n] : n \in DOMAIN live}
            /\ Len(res) = Cardinality(DOMAIN live)

\* C5: searchWithPrefix(p) contains exactly once every stored name N that
\* has p as a case-insensitive prefix (p = N included), and is empty when
\* the path of p does not exist.
C5_PrefixCorrectness ==
    lastOp.kind = "searchWithPrefix" =>
        LET p == toLowerCase(lastOp.arg)
        IN  /\ \A n \in DOMAIN live :
                    IsPrefixOf(p, n) => Count(lastOp.names, live[n]) = 1
            /\ p \notin DOMAIN pre => lastOp.names = <<>>

\* C6: exists(name) is true iff the normalized name was inserted and not
\* removed since its last insertion; a strict prefix that was never
\* inserted reports false.
C6_ExistsIffInserted ==
    /\ \A name \in Names : exists(trie, name) <=> toLowerCase(name) \in DOMAIN live
    /\ lastOp.kind = "exists" =>
            (lastOp.ret <=> toLowerCase(lastOp.arg) \in DOMAIN live)

C6_Witness ==
    /\ lastOp.kind = "exists"
    /\ ~lastOp.ret
    /\ \E n \in DOMAIN live :
            /\ IsPrefixOf(toLowerCase(lastOp.arg), n)
            /\ toLowerCase(lastOp.arg) # n

\* C7: no node other than the root is a non-terminal leaf, and the nodes of
\* the tree are exactly the prefixes of the names it still holds.
C7_NoDanglingLeaf ==
    /\ \A p \in DOMAIN trie :
            p # <<>> => (Len(trie[p].children) > 0 \/ trie[p].isEndOfWord)
    /\ DOMAIN trie = {<<>>} \cup UNION {PrefixesOf(n) : n \in DOMAIN live}

C7_Witness ==
    /\ lastOp.kind = "remove"
    /\ Stored(pre, lastOp.arg)
    /\ Cardinality(DOMAIN trie) < Cardinality(DOMAIN pre)
    /\ DOMAIN live # {}

\* C8: remove of a name that is not present returns false and leaves the
\* whole tree unchanged.
C8_RemoveAbsentIsNoOp ==
    (lastOp.kind = "remove" /\ ~Stored(pre, lastOp.arg)) =>
        (~lastOp.ret /\ trie = pre)

C8_Witness ==
    /\ lastOp.kind = "remove"
    /\ ~Stored(pre, lastOp.arg)
    /\ toLowerCase(lastOp.arg) \in DOMAIN pre
    /\ lastOp.arg # <<>>

\* C9: re-inserting a stored name with another casing adds no node and no
\* entry: every prefix search holds the identity once (when the prefix
\* matches), with the casing of the latest insert.
C9_ReinsertOtherCasing ==
    (/\ lastOp.kind = "insert"
     /\ Stored(pre, lastOp.arg)
     /\ pre[toLowerCase(lastOp.arg)].name # Some(lastOp.arg)) =>
        /\ DOMAIN trie = DOMAIN pre
        /\ \A p \in Names :
            LET res == searchWithPrefix(trie, p)
                same == {i \in 1..Len(res) :
                            toLowerCase(res[i]) = toLowerCase(lastOp.arg)}
            IN  /\ Len(res) = Len(searchWithPrefix(pre, p))
                /\ Cardinality(same) =
                      (IF IsPrefixOf(toLowerCase(p), toLowerCase(lastOp.arg))
                       THEN 1 ELSE 0)
                /\ \A i \in same : res[i] = lastOp.arg

C9_Witness ==
    /\ lastOp.kind = "insert"
    /\ Stored(pre, lastOp.arg)
    /\ pre[toLowerCase(lastOp.arg)].name # Some(lastOp.arg)
    /\ Cardinality(DOMAIN live) >= 2

\* ------------------------------------------------------------------------
\* Properties of the matcher
\* ------------------------------------------------------------------------
\* the squared distances, in hundredths, from e to the stored embeddings
SquaredDistances(m, e) ==
    {SumSquares(e, m[i].val, 1) : i \in 1..Len(m)}

\* the real distance sqrt(sq / 100) is at least t thousandths
AtLeast(sq, t) == sq * 10000 >= t * t

\* C10: if the smallest distance d from the query to a stored embedding is
\* >= t, recognizeFace returns null; a match is returned only when d < t.
C10_NoMatchAtOrAboveThreshold ==
    lastMatch.called =>
        LET sqs == SquaredDistances(hashMap, lastMatch.embedding)
        IN  /\ (sqs # {} /\ \A sq \in sqs : AtLeast(sq, lastMatch.threshold))
                    => lastMatch.result = Null
            /\ lastMatch.result # Null
                    => \E sq \in sqs : ~AtLeast(sq, lastMatch.threshold)

C10_Witness ==
    /\ lastMatch.called
    /\ lastMatch.result = Null
    /\ lastMatch.threshold > 0
    /\ Len(hashMap) >= 2
    /\ \E sq \in SquaredDistances(hashMap, lastMatch.embedding) :
            sq * 10000 = lastMatch.threshold * lastMatch.threshold
    /\ \A sq \in SquaredDistances(hashMap, lastMatch.embedding) :
            AtLeast(sq, lastMatch.threshold)

\* the entries of m under the normalized key of name (at most one)
EntryOf(m, name) == {i \in 1..Len(m) : m[i].key = toLowerCase(name)}

\* C11: when recognizeFace returns a match, the matched entry has the
\* minimum distance to the query over all entries, and it is the first
\* entry, in insertion order, at that minimum distance.
C11_MatchIsFirstMinimum ==
    (lastMatch.called /\ lastMatch.result # Null) =>
        LET es == entries(hashMap)
            e == lastMatch.embedding
        IN  \E i \in 1..Len(es) :
                /\ es[i].key = lastMatch.result[1].name
                /\ \A j \in 1..Len(es) :
                        SumSquares(e, es[i].val, 1) <= SumSquares(e, es[j].val, 1)
                /\ \A j \in 1..(i - 1) :
                        SumSquares(e, es[i].val, 1) < SumSquares(e, es[j].val, 1)

\* a match among three entries, the first one farther than the two others,
\* which are at the same distance
C11_Witness ==
    /\ lastMatch.called
    /\ lastMatch.result # Null
    /\ Len(hashMap) >= 3
    /\ LET e == lastMatch.embedding
       IN  /\ SumSquares(e, hashMap[2].val, 1) = SumSquares(e, hashMap[3].val, 1)
           /\ SumSquares(e, hashMap[2].val, 1) < SumSquares(e, hashMap[1].val, 1)
           /\ hashMap[2].val # hashMap[3].val

\* C12: if the registry holds an embedding identical to the query, a call
\* with the default threshold returns a match with confidence exactly 1.0,
\* whatever the other entries.
C12_IdenticalGivesFullConfidence ==
    (/\ lastMatch.called
     /\ lastMatch.threshold = DefaultThreshold
     /\ \E i \in 1..Len(hashMap) : hashMap[i].val = lastMatch.embedding) =>
        /\ lastMatch.result # Null
        /\ lastMatch.result[1].confidence = One
        /\ \E i \in EntryOf(hashMap, lastMatch.result[1].name) :
                euclideanDistance(lastMatch.embedding, hashMap[i].val) = 0

\* the identical embedding is stored after two other ones
C12_Witness ==
    /\ lastMatch.called
    /\ lastMatch.threshold = DefaultThreshold
    /\ Len(hashMap) >= 3
    /\ hashMap[3].val = lastMatch.embedding
    /\ hashMap[1].val # lastMatch.embedding
    /\ hashMap[2].val # lastMatch.embedding
    /\ lastMatch.result # Null

\* the smallest distance, in thousandths, from e to a stored embedding
MinDistance(m, e) ==
    Sqrt(CHOOSE sq \in SquaredDistances(m, e) :
            \A other \in SquaredDistances(m, e) : sq <= other)

\* C13: every match has confidence = clamp(1 - distance, 0, 1), hence in
\* [0, 1], for every threshold, those above 1 included; a stored [0,..,0]
\* queried with one component 0.3 at threshold 0.6 gives confidence 0.7.
C13_ConfidenceClamped ==
    (lastMatch.called /\ lastMatch.result # Null) =>
        LET d == MinDistance(hashMap, lastMatch.embedding)
            confidence == lastMatch.result[1].confidence
        IN  /\ 0 <= confidence /\ confidence <= One
            /\ confidence = (IF One - d < 0 THEN 0
                             ELSE IF One - d > One THEN One ELSE One - d)
            /\ (/\ Len(hashMap) = 1
                /\ \A i \in 1..Dim : hashMap[1].val[i] = 0
                /\ SumSquares(lastMatch.embedding, hashMap[1].val, 1) = 9
                /\ lastMatch.threshold = DefaultThreshold) => confidence = 700

\* a match at a threshold above 1 whose distance is above 1
C13_Witness ==
    /\ lastMatch.called
    /\ lastMatch.result # Null
    /\ lastMatch.threshold > One
    /\ MinDistance(hashMap, lastMatch.embedding) > One
    /\ lastMatch.result[1].confidence = 0

\* ------------------------------------------------------------------------
\* Properties of the registry
\* ------------------------------------------------------------------------
RegistryKeys(m) == {m[i].key : i \in 1..Len(m)}

TerminalPaths(t) == {p \in DOMAIN t : t[p].isEndOfWord}

DataNames(data) == {toLowerCase(data[i].name) : i \in 1..Len(data)}

\* the names equal to name up to letter case
SameUpToCase(name) == {n \in FaceNames : toLowerCase(n) = toLowerCase(name)}

\* C14: after set(name, v), get(name') is v and has(name') is true for
\* every name' equal to name up to letter case; after delete(name), get(name')
\* is undefined and has(name') is false; has(n) is true exactly when get(n)
\* is defined; delete returns true exactly when an entry was removed.
C14_RegistryRoundTrip ==
    /\ \A n \in FaceNames :
            hashMapHas(hashMap, n) <=> (hashMapGet(hashMap, n) # Null)
    /\ regOp.kind = "has" =>
            (regOp.ret <=> (hashMapGet(hashMap, regOp.name) # Null))
    /\ regOp.kind = "get" =>
            ((regOp.got # Null) <=> hashMapHas(hashMap, regOp.name))
    /\ regOp.kind = "set" =>
            \A n \in SameUpToCase(regOp.name) :
                /\ hashMapGet(hashMap, n) = Some(regOp.embedding)
                /\ hashMapHas(hashMap, n)
    /\ regOp.kind = "delete" =>
            /\ \A n \in SameUpToCase(regOp.name) :
                    /\ hashMapGet(hashMap, n) = Null
                    /\ ~hashMapHas(hashMap, n)
            /\ regOp.ret <=> (Len(hashMap) < Len(regPre))
            /\ regOp.ret <=> (\E i \in 1..Len(regPre) :
                                    regPre[i].key = toLowerCase(regOp.name))

\* a name stored under one casing is deleted under the other one, among
\* other entries
C14_Witness ==
    /\ regOp.kind = "delete"
    /\ regOp.ret
    /\ regOp.name # toLowerCase(regOp.name)
    /\ Len(hashMap) >= 1

\* C15: at most one embedding per normalized name in every reachable
\* state; a set whose name collides, up to letter case, with a stored one
\* overwrites it (last write wins) and keeps the number of entries.
C15_OneEmbeddingPerName ==
    /\ \A i, j \in 1..Len(hashMap) :
            toLowerCase(hashMap[i].key) = toLowerCase(hashMap[j].key) => i = j
    /\ (regOp.kind = "set" /\ hashMapHas(regPre, regOp.name)) =>
            /\ Len(hashMap) = Len(regPre)
            /\ hashMapGet(hashMap, regOp.name) = Some(regOp.embedding)
            /\ \A i \in 1..Len(regPre) :
                    regPre[i].key # toLowerCase(regOp.name) => hashMap[i] = regPre[i]

\* a stored name is set again in upper case with another embedding
C15_Witness ==
    /\ regOp.kind = "set"
    /\ regOp.name # toLowerCase(regOp.name)
    /\ hashMapHas(regPre, regOp.name)
    /\ hashMapGet(regPre, regOp.name) # Some(regOp.embedding)
    /\ Len(regPre) >= 2

\* the last record of faces whose normalized name is key
LastRecord(faces, key) ==
    faces[CHOOSE i \in 1..Len(faces) :
            /\ toLowerCase(faces[i].name) = key
            /\ \A j \in (i + 1)..Len(faces) : toLowerCase(faces[j].name) # key]

\* C17: after loadFacesFromData(faces) the keys are exactly the normalized
\* names occurring in faces, nothing of the previous content survives, and
\* each key maps to the embedding of the last record of that name.
C17_ReloadRebuilds ==
    regOp.kind = "loadFacesFromData" =>
        /\ RegistryKeys(hashMap) = DataNames(regOp.faces)
        /\ Len(hashMap) = Cardinality(DataNames(regOp.faces))
        /\ \A i \in 1..Len(hashMap) :
                hashMap[i].val = LastRecord(regOp.faces, hashMap[i].key).embedding

\* the reload drops a stored name and carries one name twice, under two
\* casings and with two embeddings
C17_Witness ==
    /\ regOp.kind = "loadFacesFromData"
    /\ RegistryKeys(regPre) \ DataNames(regOp.faces) # {}
    /\ \E i, j \in 1..Len(regOp.faces) :
            /\ i < j
            /\ regOp.faces[i].name # regOp.faces[j].name
            /\ toLowerCase(regOp.faces[i].name) = toLowerCase(regOp.faces[j].name)
            /\ regOp.faces[i].embedding # regOp.faces[j].embedding

\* ------------------------------------------------------------------------
\* Properties of the engine's model state
\* ------------------------------------------------------------------------
isReady == isModelLoaded

\* C18: the model state goes Uninitialized -> ModelsLoading -> Ready:
\* isReady() becomes true only when the three loads of a call have
\* succeeded, a failed load leaves it as it was (false when no call
\* succeeded), it never goes back to false, and a loadModels call made
\* while Ready starts no load.
C18_ModelStateMachine ==
    /\ [][(~isReady /\ isReady') =>
            /\ engineOp'.kind = "netLoaded"
            /\ engineOp'.loaded = Nets
            /\ \E c \in 1..Len(modelCalls) :
                    /\ Cardinality(modelCalls[c]) = Cardinality(Nets) - 1
                    /\ modelCalls' = RemoveAt(modelCalls, c)]_vars
    /\ [][engineOp'.kind = "netFailed" => isReady' = isReady]_vars
    /\ [](isReady => nCalls > 0)
    /\ [][isReady => isReady']_vars
    /\ [][(nCalls' = nCalls + 1 /\ isReady) =>
            /\ modelCalls' = modelCalls
            /\ isReady']_vars
    /\ [][(nCalls' = nCalls + 1 /\ ~isReady) =>
            /\ modelCalls' = Append(modelCalls, {})
            /\ ~isReady']_vars

\* Ready after a call that failed; the last call, made while Ready, found
\* nothing to do
C18_Witness ==
    /\ isReady
    /\ engineOp.kind = "loadModels"
    /\ engineOp.wasReady
    /\ nCalls = MaxCalls
    /\ modelCalls = <<>>

\* ------------------------------------------------------------------------
\* Properties of loading
\* ------------------------------------------------------------------------
\* C1: after every completed loadFaceData the Trie and the Registry hold the
\* same identity set, the set of names of the data just fetched:
\* exists(name) iff has(name) iff name is in the data, for every name.
C1_RegistryTrieConsistent ==
    lastLoad.done =>
        /\ \A name \in FaceNames :
                /\ exists(trie, name) <=> hashMapHas(hashMap, name)
                /\ hashMapHas(hashMap, name) <=>
                        toLowerCase(name) \in DataNames(lastLoad.data)
        /\ TerminalPaths(trie) = RegistryKeys(hashMap)

\* ------------------------------------------------------------------------
\* Properties of the recognition loop
\* ------------------------------------------------------------------------
\* C2: at most one recognition pass is in flight at any time.
C2_AtMostOnePassInFlight == inflight <= 1

\* the results of the pass that completed at time t
FromPass(results, t) == SelectSeq(results, LAMBDA r : r.timestamp = t)

\* C16: the results window never holds more than 10 entries, whatever the
\* passes and the number of faces matched in a frame; the results of the
\* newest pass come first and the oldest entries are the ones dropped.
C16_ResultsWindow ==
    /\ [](/\ Len(recognitionResults) <= MaxResults
          /\ \A i, j \in 1..Len(recognitionResults) :
                i < j => recognitionResults[i].timestamp >=
                            recognitionResults[j].timestamp)
    /\ [][recognitionResults' # recognitionResults =>
            LET new == FromPass(recognitionResults', clock)
            IN  /\ Len(new) > 0
                /\ recognitionResults' =
                        new \o Take(recognitionResults, MaxResults - Len(new))
                /\ Len(recognitionResults') =
                        Min(MaxResults, Len(new) + Len(recognitionResults))]_vars

\* a full window that holds the results of two passes: the newer pass, of
\* two faces, has pushed results of the older one out
C16_Witness ==
    /\ Len(recognitionResults) = MaxResults
    /\ recognitionResults[2].timestamp = recognitionResults[1].timestamp
    /\ recognitionResults[3].timestamp < recognitionResults[2].timestamp
    /\ recognitionResults[MaxResults].timestamp = recognitionResults[3].timestamp

\* ------------------------------------------------------------------------
\* Properties of the registration dialog
\* ------------------------------------------------------------------------
\* an assessment with overallScore >= 60
GoodQuality(metrics) == metrics # Null /\ metrics[1].overallScore >= 60

C20_DuplicateNameReported ==
    /\ [][(/\ flow # Null
           /\ flow[1].at = "insert"
           /\ flow' = Null
           /\ dialogOp'.code = "23505") =>
            /\ toast' = "Name Already Exists"
            /\ toast' # "Registration Failed"
            /\ loads' = loads
            /\ db' = db
            /\ hashMap' = hashMap
            /\ trie' = trie
            /\ ~isRegistering'
            /\ ~isCapturing']_vars
    /\ [](dialogOp.code = "23505" =>
            /\ toast = "Name Already Exists"
            /\ ~isRegistering
            /\ ~isCapturing)

\* a name registered a moment ago is registered again, the reload of the
\* first registration still running
C20_Witness ==
    /\ dialogOp.kind = "insert"
    /\ dialogOp.code = "23505"
    /\ toast = "Name Already Exists"
    /\ Len(db) > Len(SampleRows)
    /\ loads # <<>>
    /\ ~isRegistering
    /\ ~isCapturing


C22_NoPassWhileOff == [][ ~isActive => passes' = passes ]_vars

\* ------------------------------------------------------------------------
\* Properties of the reload on the event loop
\* ------------------------------------------------------------------------
\* C23: no recognizeFace call of a recognition pass and no searchWithPrefix
\* call runs while a reload is between its statements: at each such read the
\* Registry is the complete Registry of the users list (never the cleared or
\* the half-filled one) and the Trie holds every name of that list.
C23_ReadsSeeCompleteReload ==
    [][ (clock' # clock \/ lastOp' # lastOp)
        => /\ task = Null
           /\ hashMap = loadFacesFromData(<<>>, users)
           /\ \A i \in 1..Len(users) : exists(trie, users[i].name) ]_vars

\* a reload stands between clear and the first set, with the Registry
\* empty, while a recognition pass is in flight
C23_Witness ==
    /\ task # Null
    /\ task[1].at = "set" /\ task[1].k = 1
    /\ Len(task[1].data) > 0
    /\ hashMap = <<>>
    /\ inflight > 0

\* ------------------------------------------------------------------------
\* Further properties of the Trie
\* ------------------------------------------------------------------------
\* C24: insert("") creates no node and makes the root terminal, so that
\* exists("") is true, every other node and the root's children being as
\* before; remove("") makes exists("") false and leaves every other node, the
\* root's children and so every other stored name as they were.
C24_EmptyStringIsLegal ==
    /\ (lastOp.kind = "insert" /\ lastOp.arg = <<>>)
        => /\ DOMAIN trie = DOMAIN pre
           /\ trie[<<>>].isEndOfWord
           /\ exists(trie, <<>>)
    /\ (lastOp.kind = "remove" /\ lastOp.arg = <<>>)
        => /\ DOMAIN trie = DOMAIN pre
           /\ ~exists(trie, <<>>)
    /\ (lastOp.kind \in {"insert", "remove"} /\ lastOp.arg = <<>>)
        => /\ trie[<<>>].children = pre[<<>>].children
           /\ \A p \in DOMAIN pre \ {<<>>} : trie[p] = pre[p]
           /\ \A m \in Names \ {<<>>} : exists(trie, m) = exists(pre, m)

\* remove("") of a stored empty string, with another name stored
C24_Witness ==
    /\ lastOp.kind = "remove" /\ lastOp.arg = <<>>
    /\ exists(pre, <<>>)
    /\ \E m \in Names \ {<<>>} : exists(pre, m) /\ exists(trie, m)

IndexOf(seq, x) == CHOOSE i \in 1..Len(seq) : seq[i] = x

\* the first position at which the sequences x and y differ
FirstDifference(x, y) ==
    CHOOSE d \in 1..Len(x) : /\ SubSeq(x, 1, d - 1) = SubSeq(y, 1, d - 1)
                             /\ (d > Len(y) \/ x[d] # y[d])

\* the node of x comes before the node of y in a depth-first pre-order walk
\* of t that visits the children in the order of the children lists
PreOrderBefore(t, x, y) ==
    \/ (IsPrefixOf(x, y) /\ x # y)
    \/ /\ ~IsPrefixOf(x, y) /\ ~IsPrefixOf(y, x)
       /\ LET d == FirstDifference(x, y)
              node == SubSeq(x, 1, d - 1)
          IN  IndexOf(t[node].children, x[d]) < IndexOf(t[node].children, y[d])

\* the result of the last search starts with the prefix node's own name
\* when that node is terminal
OwnNameFirst ==
    LET p == toLowerCase(lastOp.arg)
    IN  (lastOp.kind = "searchWithPrefix" /\ p \in DOMAIN pre /\ pre[p].isEndOfWord)
        => (Len(lastOp.names) > 0 /\ lastOp.names[1] = pre[p].name[1])

\* the names of the last search are in pre-order of their nodes
NamesInPreOrder ==
    lastOp.kind = "searchWithPrefix"
    => \A i, j \in 1..Len(lastOp.names) :
            i < j => PreOrderBefore(pre, toLowerCase(lastOp.names[i]),
                                    toLowerCase(lastOp.names[j]))

\* a children list is in the order in which the characters were added: a
\* step keeps the order of the children that stay and puts a new child last
ChildrenInInsertionOrder ==
    \A p \in DOMAIN trie \cap DOMAIN trie' :
        LET old == trie[p].children
            new == trie'[p].children
        IN  /\ SelectSeq(new, LAMBDA c : c \in Range(old))
                    = SelectSeq(old, LAMBDA c : c \in Range(new))
            /\ \A i, j \in 1..Len(new) :
                    (new[i] \in Range(old) /\ new[j] \notin Range(old)) => i < j

\* C25: searchWithPrefix returns the names in depth-first pre-order: the
\* prefix node's own name first if the node is terminal, then the subtrees
\* in the order of insertion of the child characters.
C25_SearchInPreOrder ==
    /\ [](OwnNameFirst /\ NamesInPreOrder)
    /\ [][ChildrenInInsertionOrder]_vars

\* the prefix of n at which the pruning of remove(n) stops in t: the deepest
\* one that is the root, is a terminal ancestor, has a child off the path of
\* n, or is n itself with children
PruneStop(t, n) ==
    LET stops == {a \in PrefixesOf(n) :
                    \/ a = <<>>
                    \/ a # n /\ (t[a].isEndOfWord \/ Len(t[a].children) > 1)
                    \/ a = n /\ Len(t[a].children) > 0}
    IN  CHOOSE a \in stops : \A b \in stops : Len(b) <= Len(a)

\* C26: remove(n) leaves every other stored name m stored, with its display
\* name (m a prefix of n, n a prefix of m, or the two sharing a prefix); the
\* nodes it deletes are those of n below the first ancestor that is terminal
\* or still has children, and no other node changes but n's own.
C26_RemoveAffectsOnlyTarget ==
    lastOp.kind = "remove" =>
        LET n == toLowerCase(lastOp.arg)
        IN  /\ \A m \in TerminalPaths(pre) \ {n} :
                    /\ exists(trie, m)
                    /\ trie[m].name = pre[m].name
            /\ Stored(pre, n) =>
                    /\ DOMAIN pre \ DOMAIN trie =
                            {q \in PrefixesOf(n) : Len(q) > Len(PruneStop(pre, n))}
                    /\ \A p \in DOMAIN trie \ {n} :
                            /\ trie[p].isEndOfWord = pre[p].isEndOfWord
                            /\ trie[p].name = pre[p].name
                            /\ p # PruneStop(pre, n) => trie[p].children = pre[p].children

\* remove of a stored name below a stored prefix of it: nodes are pruned and
\* the pruning stops at the terminal ancestor
C26_Witness ==
    /\ lastOp.kind = "remove"
    /\ Stored(pre, lastOp.arg)
    /\ DOMAIN trie # DOMAIN pre
    /\ \E m \in TerminalPaths(pre) :
            /\ m # <<>> /\ m # toLowerCase(lastOp.arg)
            /\ IsPrefixOf(m, toLowerCase(lastOp.arg))
            /\ PruneStop(pre, toLowerCase(lastOp.arg)) = m

\* ------------------------------------------------------------------------
\* Further properties of the recognition loop
\* ------------------------------------------------------------------------
\* C27: a pass that has set the busy flag ends, and its end clears the flag
\* whether the detection resolved or threw: isProcessing does not stay set
\* forever, and no pass stays in flight forever.
C27_BusyFlagCleared ==
    /\ [][inflight' < inflight => ~isProcessing']_vars
    /\ isProcessing ~> ~isProcessing
    /\ (inflight > 0) ~> (inflight = 0)

\* every pass begun has ended, none with a result, and the flag is clear
C27_Witness ==
    /\ passes > 0
    /\ clock = passes
    /\ inflight = 0
    /\ recognitionResults = <<>>
    /\ ~isProcessing

\* ------------------------------------------------------------------------
\* Further properties of loadFaceData
\* ------------------------------------------------------------------------
\* the step ends call i of loadFaceData in its catch block: loadModels has
\* thrown or the select has answered an error
FailedLoadEnds(i) ==
    /\ loads' = RemoveAt(loads, i)
    /\ \/ loads[i].phase = "models"
       \/ loads[i].phase = "response" /\ loads[i].error

\* C28: a loadFaceData call that fails (loadModels throws, or the select
\* answers an error) leaves the Registry, the Trie and the users list as they
\* were before it ended, and clears the loading indicator.
C28_FailedLoadChangesNothing ==
    [][ (\E i \in 1..Len(loads) : FailedLoadEnds(i))
        => /\ hashMap' = hashMap
           /\ trie' = trie
           /\ users' = users
           /\ ~isLoading' ]_vars

\* a reload has failed on a page that shows a registered face
C28_Witness ==
    /\ lastLoad.failed
    /\ hashMap # <<>> /\ users # <<>>
    /\ TerminalPaths(trie) # {}
    /\ ~isLoading

\* C29: once every overlapping loadFaceData call has completed, the users
\* list and the Registry hold the data of the most recently issued select,
\* whatever the order of the responses.
C29_LastIssuedWins ==
    loads = <<>> =>
        /\ users = lastLoad.lastIssuedData
        /\ hashMap = loadFacesFromData(<<>>, lastLoad.lastIssuedData)

\* ------------------------------------------------------------------------
\* Further properties of the matcher
\* ------------------------------------------------------------------------
\* C30: a match of recognizeFace names a key of the Registry, in lower case,
\* whose stored embedding is at a distance strictly below the threshold from
\* the query; on an empty Registry the result is null; the call leaves the
\* Registry as it was.
C30_MatchIsRegistryKey ==
    lastMatch.called =>
        /\ lastMatch.result # Null =>
                \E i \in 1..Len(lastMatch.before) :
                    /\ lastMatch.before[i].key = lastMatch.result[1].name
                    /\ lastMatch.before[i].key = toLowerCase(lastMatch.before[i].key)
                    /\ ~AtLeast(SumSquares(lastMatch.embedding,
                                           lastMatch.before[i].val, 1),
                                lastMatch.threshold)
        /\ lastMatch.before = <<>> => lastMatch.result = Null
        /\ hashMap = lastMatch.before

\* a match on the second entry of the Registry, under its lower-case key
C30_Witness ==
    /\ lastMatch.called
    /\ lastMatch.result # Null
    /\ Len(hashMap) >= 2
    /\ hashMap[2].key = lastMatch.result[1].name
    /\ lastMatch.result[1].name = <<"a">>
====
